---- MODULE Spec2Model ----
(***************************************************************************)
(* A model of the tour-feedback analyzer:                                  *)
(*   utils.py               parse_file / parse_csv / parse_json / parse_txt *)
(*   feedback_processor.py  process_single_feedback / process_feedback      *)
(*   app.py                 the chunk loop that drives process_feedback     *)
(*                                                                         *)
(* Six specifications share the variables:                                 *)
(*   SpecParse    one uploaded file is parsed by parse_file                *)
(*   SpecCsv      one single-column feedback CSV file is parsed by         *)
(*                parse_csv                                                *)
(*   SpecProc     one process_feedback call on one dataset                 *)
(*   SpecExtract  one process_feedback call whose capability answers with  *)
(*                a response text that the JSON extraction has to cut      *)
(*   SpecRun      one "Analyze Feedback" run of the app over a dataset     *)
(*   SpecFold     the app's merge step over any split into contiguous      *)
(*                chunks                                                   *)
(***************************************************************************)
EXTENDS Integers, Sequences, FiniteSets, TLC

VARIABLES
    pc,              \* position of the modelled operation
    upload,          \* the uploaded file: declared extension and content
    parsed,          \* what parse_file returned (or that it raised)
    df,              \* the dataset handed to process_feedback / the app
    cap,             \* the capability: how the model answers each request
    opts,            \* include_summaries / include_suggestions
    ret,             \* outcome of the process_feedback call (SpecProc)
    i,               \* app.py chunk loop counter
    results,         \* app.py accumulated results (a dict: keys may be absent)
    processed_df,    \* app.py accumulated annotated rows
    error_messages,  \* app.py: chunk numbers whose processing raised
    progress,        \* app.py: last value given to progress_bar.progress, as <<k, total>>
    end_idx          \* app.py: end_idx of the last chunk cut from df

appVars == <<i, results, processed_df, error_messages, progress, end_idx>>
vars == <<pc, upload, parsed, df, cap, opts, ret, appVars>>

(***************************************************************************)
(* Bounds of the model.                                                    *)
(***************************************************************************)
MaxChars == 5       \* longest csv/txt content, in characters
MaxItems == 2       \* longest JSON list / most rows given to one process_feedback call
MaxRunRows == 11    \* most rows of a dataset analysed by the app's chunk loop
MaxFoldRows == 3    \* most rows of a dataset folded over arbitrary chunks

(***************************************************************************)
(* Generic helpers.                                                        *)
(***************************************************************************)
Min(a, b) == IF a <= b THEN a ELSE b
Max(a, b) == IF a >= b THEN a ELSE b

SeqsUpTo(S, n) == UNION {[1..k -> S] : k \in 0..n}

Range(s) == {s[k] : k \in DOMAIN s}

RECURSIVE SumOver(_, _)
SumOver(f, S) ==
    IF S = {} THEN 0
    ELSE LET x == CHOOSE y \in S : TRUE IN f[x] + SumOver(f, S \ {x})

(***************************************************************************)
(* Python values, as far as the program looks at them.                     *)
(*   a string     [t |-> "str",  v |-> <text>]                             *)
(*   a number     [t |-> "num",  v |-> <its str()>]                        *)
(*   None / NaN   [t |-> "null", v |-> "nan"]                              *)
(*   a list       [t |-> "list", items |-> <<...>>]                        *)
(*   a dict       [t |-> "dict", pairs |-> << [k |-> key, v |-> value] >>] *)
(* A dict key or column name is [ty |-> "str" | "int", v |-> <text>].      *)
(***************************************************************************)
PStr(s) == [t |-> "str", v |-> s]
PNum(s) == [t |-> "num", v |-> s]
PNull == [t |-> "null", v |-> "nan"]
PList(items) == [t |-> "list", items |-> items]
PDict(pairs) == [t |-> "dict", pairs |-> pairs]
StrKey(s) == [ty |-> "str", v |-> s]
IntKey(s) == [ty |-> "int", v |-> s]

IsStr(x) == x.t = "str"
IsList(x) == x.t = "list"
IsDict(x) == x.t = "dict"

\* The feedback texts of the model and their len().
ShortText == "nice trip"
LongText == "the hotel room was dirty"
OtherLongText == "our guide was late and rude"
Texts == {"", " ", ShortText, LongText, OtherLongText}

StrLen(s) ==
    CASE s = "" -> 0
      [] s = " " -> 1
      [] s = "7" -> 1
      [] s = "nan" -> 3
      [] s = ShortText -> 9
      [] s = LongText -> 24
      [] s = OtherLongText -> 27
      [] OTHER -> 12

\* a process_feedback that takes no string for whitespace-only
IsSpaceNever(s) == FALSE

\* str.isspace()
IsSpace(s) == s = " "

\* str(value), as process_feedback applies it to a cell
PyStr(x) ==
    CASE x.t = "str" -> x.v
      [] x.t = "num" -> x.v
      [] x.t = "null" -> "nan"
      [] x.t = "list" -> "[list]"
      [] OTHER -> "{dict}"

\* str.lower() on the column names of the model
Lower(s) ==
    CASE s = "Feedback" -> "feedback"
      [] s = "REVIEW" -> "review"
      [] OTHER -> s

(***************************************************************************)
(* DataFrames: ordered columns, ordered rows; a row carries its index      *)
(* label and one cell per column.                                          *)
(***************************************************************************)
MkRow(idx, cells) == [idx |-> idx, cells |-> cells]
MkFrame(cols, rows) == [cols |-> cols, rows |-> rows]
EmptyFrame == MkFrame(<<>>, <<>>)

NRows(f) == Len(f.rows)
NCols(f) == Len(f.cols)

\* DataFrame.empty: any axis of length 0
IsEmptyFrame(f) == NRows(f) = 0 \/ NCols(f) = 0

\* pd.DataFrame({'feedback': values}): one string column, default RangeIndex
FeedbackFrame(values) ==
    MkFrame(<<StrKey("feedback")>>,
            [k \in 1..Len(values) |-> MkRow(k - 1, <<values[k]>>)])

(***************************************************************************)
(* pandas.DataFrame(<list>) as parse_json uses it.  The first element      *)
(* decides the shape: dicts give one column per key (first-seen order,     *)
(* missing keys are NaN), lists give integer-named columns 0..k-1, and     *)
(* scalars give the single integer-named column 0.  A list that starts     *)
(* with a dict or a list and holds an element of another shape raises.     *)
(***************************************************************************)
DigitStr(n) == CASE n = 0 -> "0" [] n = 1 -> "1" [] n = 2 -> "2" [] OTHER -> "3"

DictHas(d, key) == \E k \in DOMAIN d.pairs : d.pairs[k].k = key

DictGet(d, key, default) ==
    IF DictHas(d, key)
    THEN d.pairs[CHOOSE k \in DOMAIN d.pairs : d.pairs[k].k = key].v
    ELSE default

DictKeys(d) == [k \in DOMAIN d.pairs |-> d.pairs[k].k]

RECURSIVE AppendNew(_, _)
AppendNew(keys, more) ==
    IF more = <<>> THEN keys
    ELSE AppendNew(IF Head(more) \in Range(keys) THEN keys ELSE Append(keys, Head(more)),
                   Tail(more))

RECURSIVE UnionKeys(_, _)
UnionKeys(items, keys) ==
    IF items = <<>> THEN keys
    ELSE UnionKeys(Tail(items), AppendNew(keys, DictKeys(Head(items))))

RECURSIVE MaxLenOf(_)
MaxLenOf(items) ==
    IF items = <<>> THEN 0 ELSE Max(Len(Head(items).items), MaxLenOf(Tail(items)))

Raised == [raised |-> TRUE, frame |-> EmptyFrame]
Built(f) == [raised |-> FALSE, frame |-> f]

DataFrameFromList(items) ==
    IF items = <<>> THEN Built(EmptyFrame)
    ELSE IF IsDict(items[1]) THEN
        IF \E k \in DOMAIN items : ~IsDict(items[k]) THEN Raised
        ELSE LET cols == UnionKeys(items, <<>>) IN
             Built(MkFrame(cols,
                 [k \in DOMAIN items |->
                     MkRow(k - 1, [c \in DOMAIN cols |-> DictGet(items[k], cols[c], PNull)])]))
    ELSE IF IsList(items[1]) THEN
        IF \E k \in DOMAIN items : ~IsList(items[k]) THEN Raised
        ELSE LET w == MaxLenOf(items) IN
             Built(MkFrame([c \in 1..w |-> IntKey(DigitStr(c - 1))],
                 [k \in DOMAIN items |->
                     MkRow(k - 1, [c \in 1..w |->
                         IF c <= Len(items[k].items) THEN items[k].items[c] ELSE PNull])]))
    ELSE Built(MkFrame(<<IntKey("0")>>,
                 [k \in DOMAIN items |-> MkRow(k - 1, <<items[k]>>)]))

(***************************************************************************)
(* parse_json.  The uploaded JSON file is given by what json.loads and     *)
(* ast.literal_eval make of it:                                            *)
(*   syntax = "json"     json.loads returns value                          *)
(*   syntax = "literal"  json.loads raises JSONDecodeError, literal_eval   *)
(*                       returns value (single quotes, integer keys, ...)  *)
(*   syntax = "garbage"  both raise; lines = content.strip().split('\n')   *)
(***************************************************************************)
Parsed(f, label) == [frame |-> f, label |-> label]

json_loads(doc) ==
    IF doc.syntax = "json" THEN [raised |-> FALSE, value |-> doc.value]
    ELSE [raised |-> TRUE, value |-> PNull]

literal_eval(doc) ==
    IF doc.syntax = "literal" THEN [raised |-> FALSE, value |-> doc.value]
    ELSE [raised |-> TRUE, value |-> PNull]

feedback_related_keys == <<"feedback", "reviews", "comments", "responses", "data">>

\* list_keys = [k for k in content if isinstance(content[k], list)]
list_keys(content) ==
    SelectSeq(DictKeys(content), LAMBDA key : IsList(DictGet(content, key, PNull)))

\* a parse_json without the preference list: the longest list always wins
NoRelatedKey(lkeys) == 0

\* the first key of feedback_related_keys that is in list_keys, as an index, or 0
FirstRelatedKey(lkeys) ==
    LET hits == {n \in DOMAIN feedback_related_keys :
                    StrKey(feedback_related_keys[n]) \in Range(lkeys)}
    IN IF hits = {} THEN 0 ELSE CHOOSE n \in hits : \A m \in hits : n <= m

\* max(list_keys, key=lambda k: len(content[k])): the first key of greatest length
max_list_key(content, lkeys) ==
    LET len(n) == Len(DictGet(content, lkeys[n], PNull).items)
        best == CHOOSE n \in DOMAIN lkeys :
                    /\ \A m \in DOMAIN lkeys : len(m) <= len(n)
                    /\ \A m \in DOMAIN lkeys : len(m) = len(n) => n <= m
    IN lkeys[best]

\* truth value of a dict key: '' and 0 are falsy
KeyTruthy(key) == key.v # "" /\ ~(key.ty = "int" /\ key.v = "0")

\* lines 109-147: the structural dispatch on the parsed value
json_dispatch(content) ==
    IF IsList(content) THEN
        IF \A k \in DOMAIN content.items : IsStr(content.items[k])
        THEN Built(FeedbackFrame(content.items))
        ELSE DataFrameFromList(content.items)
    ELSE IF IsDict(content) THEN
        LET lkeys == list_keys(content) IN
        IF lkeys # <<>> THEN
            LET n == FirstRelatedKey(lkeys) IN
            IF n # 0
            THEN DataFrameFromList(
                     DictGet(content, StrKey(feedback_related_keys[n]), PNull).items)
            ELSE LET mk == max_list_key(content, lkeys) IN
                 IF KeyTruthy(mk) /\ DictGet(content, mk, PNull).items # <<>>
                 THEN DataFrameFromList(DictGet(content, mk, PNull).items)
                 ELSE DataFrameFromList(<<content>>)
        ELSE DataFrameFromList(<<content>>)
    ELSE Built(FeedbackFrame(<<PStr(PyStr(content))>>))

JsonNoData == "JSON parsing resulted in no usable data - please check format"
JsonError == "Error in JSON parsing - this is a placeholder entry"

parse_json(doc) ==
    LET loaded == json_loads(doc)
        fixed == literal_eval(doc)
    IN IF loaded.raised /\ fixed.raised
       THEN \* lines 99-103; pd.DataFrame of a list of strings cannot raise,
            \* so the "invalid json" handler of lines 104-107 is never entered
            Parsed(FeedbackFrame([k \in DOMAIN doc.lines |-> PStr(doc.lines[k])]),
                   "json-like text")
       ELSE LET content == IF loaded.raised THEN fixed.value ELSE loaded.value
                built == json_dispatch(content)
            IN IF built.raised
               THEN Parsed(FeedbackFrame(<<PStr(JsonError)>>), "json with parsing error")
               ELSE IF IsEmptyFrame(built.frame)
                    THEN Parsed(FeedbackFrame(<<PStr(JsonNoData)>>), "json")
                    ELSE Parsed(built.frame, "json")

(***************************************************************************)
(* CSV and text files are sequences of characters over a small alphabet.   *)
(***************************************************************************)
NL == "\n"
QUOTE == "\""
Chars == {"x", ",", NL, QUOTE, " "}

\* content.strip().split('\n') followed by [line.strip() for line in lines if line.strip()]:
\* the stripped non-blank lines (utils.py lines 167-170)
RECURSIVE SplitLines(_, _, _)
SplitLines(chars, cur, acc) ==
    IF chars = <<>> THEN Append(acc, cur)
    ELSE IF Head(chars) = NL THEN SplitLines(Tail(chars), <<>>, Append(acc, cur))
    ELSE SplitLines(Tail(chars), Append(cur, Head(chars)), acc)

RECURSIVE LStrip(_)
LStrip(line) ==
    IF line # <<>> /\ Head(line) = " " THEN LStrip(Tail(line)) ELSE line

RECURSIVE RStrip(_)
RStrip(line) ==
    IF line # <<>> /\ line[Len(line)] = " "
    THEN RStrip(SubSeq(line, 1, Len(line) - 1)) ELSE line

Strip(line) == RStrip(LStrip(line))

\* a parse_txt that strips the lines and keeps the blank ones
StrippedLines(chars) ==
    LET raw == SplitLines(chars, <<>>, <<>>)
    IN [k \in DOMAIN raw |-> Strip(raw[k])]

NonBlankLines(chars) ==
    LET raw == SplitLines(chars, <<>>, <<>>)
        stripped == [k \in DOMAIN raw |-> Strip(raw[k])]
    IN SelectSeq(stripped, LAMBDA line : line # <<>>)

HasComma(line) == \E k \in DOMAIN line : line[k] = ","

(***************************************************************************)
(* pandas.read_csv (C parser, header=0, skip_blank_lines) on a character   *)
(* sequence: the tokenizer's states, then the header and width rules.      *)
(*   SR start of record, SF start of field, IF in field, QF in quoted      *)
(*   field, QQ quote seen in quoted field, WL whitespace-only line so far  *)
(***************************************************************************)
TokStart == [state |-> "SR", field |-> <<>>, rec |-> <<>>, recs |-> <<>>]

EndField(st) == [st EXCEPT !.rec = Append(st.rec, st.field), !.field = <<>>]
EndLine(st) == [st EXCEPT !.recs = Append(st.recs, st.rec), !.rec = <<>>, !.state = "SR"]
Push(st, c, state) == [st EXCEPT !.field = Append(st.field, c), !.state = state]

\* START_FIELD
StartField(st, c, d) ==
    IF c = NL THEN EndLine(EndField(st))
    ELSE IF c = QUOTE THEN [st EXCEPT !.state = "QF"]
    ELSE IF c = d THEN [EndField(st) EXCEPT !.state = "SF"]
    ELSE Push(st, c, "IF")

\* IN_FIELD
InField(st, c, d) ==
    IF c = NL THEN EndLine(EndField(st))
    ELSE IF c = d THEN [EndField(st) EXCEPT !.state = "SF"]
    ELSE Push(st, c, "IF")

TokStep(st, c, d) ==
    IF st.state = "SR" THEN
        IF c = NL THEN st                                   \* blank line skipped
        ELSE IF c = " " /\ c # d THEN Push(st, c, "WL")
        ELSE StartField(st, c, d)
    ELSE IF st.state = "WL" THEN
        IF c = NL THEN [st EXCEPT !.field = <<>>, !.state = "SR"]   \* whitespace line skipped
        ELSE IF c = " " /\ c # d THEN Push(st, c, "WL")
        ELSE InField(st, c, d)              \* backtrack: the blanks open the first field
    ELSE IF st.state = "SF" THEN StartField(st, c, d)
    ELSE IF st.state = "IF" THEN InField(st, c, d)
    ELSE IF st.state = "QF" THEN
        IF c = QUOTE THEN [st EXCEPT !.state = "QQ"] ELSE Push(st, c, "QF")
    ELSE \* QQ
        IF c = QUOTE THEN Push(st, c, "QF")
        ELSE IF c = d THEN [EndField(st) EXCEPT !.state = "SF"]
        ELSE IF c = NL THEN EndLine(EndField(st))
        ELSE Push(st, c, "IF")

RECURSIVE TokRun(_, _, _)
TokRun(chars, st, d) ==
    IF chars = <<>> THEN st ELSE TokRun(Tail(chars), TokStep(st, Head(chars), d), d)

\* end of input: "EOF inside string" in a quoted field, else the open line is closed
TokEnd(st) ==
    CASE st.state = "QF" -> [raised |-> TRUE, recs |-> <<>>]
      [] st.state \in {"SR", "WL"} -> [raised |-> FALSE, recs |-> st.recs]
      [] OTHER -> [raised |-> FALSE, recs |-> EndLine(EndField(st)).recs]

Tokenize(chars, d) == TokEnd(TokRun(chars, TokStart, d))

\* the text of a field: its characters in order
RECURSIVE Join(_)
Join(field) == IF field = <<>> THEN "" ELSE Head(field) \o Join(Tail(field))

CsvCell(field) == IF field = <<>> THEN PNull ELSE PStr(Join(field))

\* The first record is the header.  The first data record fixes the width (extra
\* leading fields become the index); a later record with more fields is a bad line,
\* skipped under on_bad_lines='skip' and an error otherwise; short records are padded.
FrameOfRecords(tok, skipBad) ==
    IF tok.raised \/ tok.recs = <<>> THEN Raised
    ELSE LET recs == tok.recs
             w0 == Len(recs[1])
             w1 == IF Len(recs) >= 2 THEN Max(w0, Len(recs[2])) ELSE w0
             lead == w1 - w0
             data == SubSeq(recs, 2, Len(recs))
             good == SelectSeq(data, LAMBDA r : Len(r) <= w1)
         IN IF ~skipBad /\ Len(good) # Len(data) THEN Raised
            ELSE Built(MkFrame(
                     [c \in 1..w0 |-> StrKey(Join(recs[1][c]))],
                     [k \in DOMAIN good |->
                        MkRow(k - 1, [c \in 1..w0 |->
                            IF lead + c <= Len(good[k])
                            THEN CsvCell(good[k][lead + c]) ELSE PNull])]))

ReadCsv(chars, d, skipBad) == FrameOfRecords(Tokenize(chars, d), skipBad)

\* csv.Sniffer().sniff(sample).delimiter: a heuristic of the standard library; the
\* model allows every character of the sample it can name, and the fallback ','
SniffOutcomes(chars) == {","} \cup (Range(chars) \cap {" ", "x"})

CsvNoData == "CSV parsing resulted in no data - please check file format"
CsvError == "Error in CSV parsing - this is a placeholder entry"

\* a parse_csv without its exception handler: what the reads gave is returned
CsvResultUnhandled(got) == Parsed(got.frame, "csv")

\* lines 67-77: what parse_csv makes of the outcome of its reads
CsvResult(got) ==
    IF got.raised
    THEN Parsed(FeedbackFrame(<<PStr(CsvError)>>), "csv with parsing error")
    ELSE IF IsEmptyFrame(got.frame)
         THEN Parsed(FeedbackFrame(<<PStr(CsvNoData)>>), "csv")
         ELSE Parsed(got.frame, "csv")

\* lines 56-65: the read that skips bad lines, else the read with default settings
FirstOrLast(first, last) == IF first.raised THEN last ELSE first

parse_csv(chars, delimiter) ==
    CsvResult(FirstOrLast(ReadCsv(chars, delimiter, TRUE), ReadCsv(chars, ",", FALSE)))

NoContent == "No content found in file"
SampleEntry == "Sample feedback entry - please replace with actual data"
FirstLines == 10

\* lines 173-198, given the non-blank lines and what pd.read_csv makes of the file
TxtResult(found, csv) ==
    LET lines == IF found = <<>> THEN <<NoContent>> ELSE found
        looksCsv == /\ found # <<>>
                    /\ \E k \in DOMAIN lines : k <= FirstLines /\ HasComma(lines[k])
                    /\ Len(lines) > 1
    IN IF looksCsv /\ ~csv.raised
       THEN Parsed(csv.frame, "csv-like text")
       ELSE LET f == FeedbackFrame([k \in DOMAIN lines |-> PStr(lines[k])]) IN
            IF IsEmptyFrame(f)
            THEN Parsed(FeedbackFrame(<<PStr(SampleEntry)>>), "text")
            ELSE Parsed(f, "text")

parse_txt(chars) == TxtResult(NonBlankLines(chars), ReadCsv(chars, ",", FALSE))

\* parse_file: the dispatch on the lower-cased extension
parse_file(up, delimiter) ==
    CASE up.ext = "csv" -> parse_csv(up.chars, delimiter)
      [] up.ext = "json" -> parse_json(up.doc)
      [] OTHER -> parse_txt(up.chars)

(***************************************************************************)
(* The uploaded files of the model.                                        *)
(***************************************************************************)
Obj1(k1, v1) == PDict(<<[k |-> k1, v |-> v1]>>)
Obj2(k1, v1, k2, v2) == PDict(<<[k |-> k1, v |-> v1], [k |-> k2, v |-> v2]>>)

CellTexts == {PStr(t) : t \in {"", ShortText, LongText}}

\* objects whose keys are all strings (JSON or Python literal syntax)
JsonObjects ==
    {Obj1(StrKey("feedback"), PStr(t)) : t \in Texts}
    \cup {Obj2(StrKey("id"), PNum("7"), StrKey(k), v) :
             k \in {"notes", "REVIEW"}, v \in CellTexts \cup {PNull}}
    \cup {Obj2(StrKey("notes"), v1, StrKey("remarks"), v2) : v1, v2 \in CellTexts}
    \cup {Obj1(StrKey("id"), PNum("7")), PDict(<<>>)}

\* objects with an integer key: Python literal syntax only
LiteralObjects ==
    {Obj1(IntKey("0"), PStr(LongText)),
     Obj2(IntKey("0"), PStr(LongText), StrKey("feedback"), PStr(LongText))}

StringLists == {PList(items) : items \in SeqsUpTo({PStr(t) : t \in Texts}, MaxItems)}
NumberLists == {PList([k \in 1..n |-> PNum("7")]) : n \in 1..MaxItems}
InnerLists == {PList(<<PStr(LongText)>>), PList(<<PStr(ShortText), PStr(LongText)>>)}
ListLists == {PList(items) : items \in SeqsUpTo(InnerLists, MaxItems) \ {<<>>}}
ObjectLists(objects) == {PList(items) : items \in SeqsUpTo(objects, MaxItems) \ {<<>>}}
MixedLists ==
    {PList(<<Obj1(StrKey("feedback"), PStr(LongText)), PNum("7")>>),
     PList(<<PNum("7"), PStr(LongText)>>),
     PList(<<PList(<<PStr(LongText)>>), PNum("7")>>)}

SomeLists == {PList(<<>>), PList(<<PStr(ShortText)>>),
              PList(<<PStr(LongText), PStr(OtherLongText)>>),
              PList(<<Obj1(StrKey("feedback"), PStr(LongText))>>)}

\* dicts with list-valued keys, some of them in the preference list
ListDicts ==
    {Obj2(StrKey(k1), l1, StrKey(k2), l2) :
        k1 \in {"reviews", "other", "data"}, k2 \in {"feedback", "more"},
        l1 \in SomeLists, l2 \in SomeLists \cup {PStr(LongText)}}
    \cup {Obj1(IntKey("0"), PList(<<PStr(LongText)>>)), Obj1(StrKey(""), PList(<<PStr(LongText)>>))}

Scalars == {PNum("7"), PStr(LongText), PNull}

JsonValues ==
    StringLists \cup NumberLists \cup ListLists \cup ObjectLists(JsonObjects)
    \cup MixedLists \cup ListDicts \cup JsonObjects \cup Scalars

LiteralValues ==
    ObjectLists(LiteralObjects) \cup LiteralObjects \cup {PList(<<PStr(LongText)>>)}

\* content.strip().split('\n') of a text that is neither JSON nor a Python literal:
\* at least one line, and neither the first nor the last line is blank unless
\* the whole content is
GarbageLines ==
    {<<"">>} \cup
    {ls \in SeqsUpTo({"", " ", ShortText, LongText}, MaxItems) :
        ls # <<>> /\ ls[1] \notin {"", " "} /\ ls[Len(ls)] \notin {"", " "}}

NoDoc == [syntax |-> "none", value |-> PNull, lines |-> <<>>]

JsonDocs ==
    {[syntax |-> "json", value |-> v, lines |-> <<>>] : v \in JsonValues}
    \cup {[syntax |-> "literal", value |-> v, lines |-> <<>>] : v \in LiteralValues}
    \cup {[syntax |-> "garbage", value |-> PNull, lines |-> ls] : ls \in GarbageLines}

TextUploads ==
    {[ext |-> e, chars |-> cs, doc |-> NoDoc] :
        e \in {"csv", "txt", "dat"}, cs \in SeqsUpTo(Chars, MaxChars)}

JsonUploads == {[ext |-> "json", chars |-> <<>>, doc |-> d] : d \in JsonDocs}

NoUpload == [ext |-> "none", chars |-> <<>>, doc |-> NoDoc]
NotParsed == Parsed(EmptyFrame, "none")

(***************************************************************************)
(* feedback_processor.py                                                   *)
(*                                                                         *)
(* The capability (the Gemini model) is given by what it answers:          *)
(*   cap.modelOk   get_gemini_model() returns (else it raises)             *)
(*   cap.table     the answer to the classify prompt of a text, cap.rest   *)
(*                 for the texts the table does not list                   *)
(*   cap.sumFails  generate_content raises for a summary prompt            *)
(*   cap.sugFails  generate_content raises for a suggestions prompt        *)
(* An answer is [kind |-> "raise"] (generate_content raised),              *)
(* "nojson" (the text holds nothing json.loads accepts) or "json" with     *)
(* payload the value json.loads returns for the matched text.              *)
(***************************************************************************)
Sentiments == {"positive", "neutral", "negative"}
Categories == {"accommodation", "transportation", "food_dining", "activities_guides",
               "booking_process", "value_for_money", "other"}
CategoryOrder == <<"accommodation", "transportation", "food_dining", "activities_guides",
                   "booking_process", "value_for_money", "other">>
SampleCap == 20

potential_columns == {"feedback", "review", "comment", "text", "description",
                      "response", "comments", "reviews", "message", "content"}

Answer(kind, payload) == [kind |-> kind, payload |-> payload]

Analysis(s, c, kp) ==
    PDict(<<[k |-> StrKey("sentiment"), v |-> s],
            [k |-> StrKey("category"), v |-> c],
            [k |-> StrKey("key_points"), v |-> kp]>>)

CouldNotExtract == "Could not extract key points"
DefaultResult ==
    Analysis(PStr("neutral"), PStr("other"), PList(<<PStr(CouldNotExtract)>>))

Classify(c, text) == IF text \in DOMAIN c.table THEN c.table[text] ELSE c.rest

(***************************************************************************)
(* lines 54-63: the JSON object is cut out of response.text by             *)
(* re.search with three alternatives, in this order: a fence followed by   *)
(* json and a line break, a lazy group, a line break and a fence; a fence, *)
(* a lazy group, a fence; a greedy group from an opening to a closing      *)
(* brace.  A fence is three backquotes.  A response text is a sequence of  *)
(* pieces: a fence, the word json, a line break, the text of a JSON object *)
(* (no nested braces), or prose.                                           *)
(***************************************************************************)
Fence == "FENCE"
JsonWord == "json"
ObjectText == "{\"sentiment\": \"positive\", \"category\": \"accommodation\"}"
Prose == "see"
Pieces == {Fence, JsonWord, NL, ObjectText, Prose}

\* what json.loads(ObjectText) returns
ObjectValue ==
    PDict(<<[k |-> StrKey("sentiment"), v |-> PStr("positive")],
            [k |-> StrKey("category"), v |-> PStr("accommodation")]>>)

NoMatch == [found |-> FALSE, group |-> <<>>]
Match(g) == [found |-> TRUE, group |-> g]

\* the first position from k on where the text reads a fence (0 when there is none)
RECURSIVE FindFence(_, _)
FindFence(t, k) ==
    IF k > Len(t) THEN 0
    ELSE IF t[k] = Fence THEN k
    ELSE FindFence(t, k + 1)

\* the first position from k on where the text reads a line break and a fence (0 when there is none)
RECURSIVE FindNlFence(_, _)
FindNlFence(t, k) ==
    IF k + 1 > Len(t) THEN 0
    ELSE IF t[k] = NL /\ t[k + 1] = Fence THEN k
    ELSE FindNlFence(t, k + 1)

\* the position of the last } of the text (0 when there is none)
RECURSIVE LastBrace(_, _)
LastBrace(t, k) ==
    IF k = 0 THEN 0
    ELSE IF t[k] = ObjectText THEN k
    ELSE LastBrace(t, k - 1)

\* the first alternative at position k: the lazy group ends at the first line
\* break that a fence follows
JsonFenceAt(t, k) ==
    IF /\ k + 2 <= Len(t)
       /\ t[k] = Fence /\ t[k + 1] = JsonWord /\ t[k + 2] = NL
       /\ FindNlFence(t, k + 3) # 0
    THEN Match(SubSeq(t, k + 3, FindNlFence(t, k + 3) - 1))
    ELSE NoMatch

\* the second alternative at position k: the lazy group ends at the next fence
AnyFenceAt(t, k) ==
    IF t[k] = Fence /\ FindFence(t, k + 1) # 0
    THEN Match(SubSeq(t, k + 1, FindFence(t, k + 1) - 1))
    ELSE NoMatch

\* the third alternative at position k: the greedy group ends at the last } of the text
BracesAt(t, k) ==
    IF t[k] = ObjectText THEN Match(SubSeq(t, k, LastBrace(t, Len(t)))) ELSE NoMatch

\* the alternation at position k: the first alternative that matches there
MatchAt(t, k) ==
    IF JsonFenceAt(t, k).found THEN JsonFenceAt(t, k)
    ELSE IF AnyFenceAt(t, k).found THEN AnyFenceAt(t, k)
    ELSE BracesAt(t, k)

\* re.search: the match at the leftmost position where the pattern matches
RECURSIVE re_search(_, _)
re_search(t, k) ==
    IF k > Len(t) THEN NoMatch
    ELSE IF MatchAt(t, k).found THEN MatchAt(t, k)
    ELSE re_search(t, k + 1)

\* json.loads(json_str) returns: the string is one JSON object with nothing but
\* white space around it (an empty group makes json_str None, which raises too)
Loads(json_str) ==
    /\ \E k \in DOMAIN json_str : json_str[k] = ObjectText
    /\ \A k, j \in DOMAIN json_str :
          (json_str[k] = ObjectText /\ json_str[j] = ObjectText) => k = j
    /\ \A k \in DOMAIN json_str : json_str[k] \in {ObjectText, NL}

\* lines 57-63, given the match: the parsed group, or the parsed whole text when
\* nothing matched; raised when json.loads raises
ExtractFrom(json_match, response_text) ==
    IF Loads(IF json_match.found THEN json_match.group ELSE response_text)
    THEN [raised |-> FALSE, value |-> ObjectValue]
    ELSE [raised |-> TRUE, value |-> PNull]

extract_json(response_text) == ExtractFrom(re_search(response_text, 1), response_text)

\* lines 48-71, given the extraction of a response text
ResultOf(extracted) ==
    IF extracted.raised THEN DefaultResult ELSE extracted.value

\* process_single_feedback: the parsed payload, or the default result when the
\* request raised or the answer does not parse.  An answer of kind "text" carries
\* the response text and goes through the extraction; the kinds "json" and
\* "nojson" stand for a text whose extraction gives the payload, or raises.
process_single_feedback(feedback_text, c) ==
    LET response == Classify(c, feedback_text)
    IN IF response.kind = "json" THEN response.payload
       ELSE IF response.kind = "text" THEN ResultOf(extract_json(response.payload))
       ELSE DefaultResult

\* Column inference (lines 214-243).  The result is the 1-based position of the
\* column, 0 when no rule applies; raised when col.lower() meets a column name
\* that is not a string.
RECURSIVE ScanNames(_, _)
ScanNames(cols, k) ==
    IF k > Len(cols) THEN [raised |-> FALSE, col |-> 0]
    ELSE IF cols[k].ty # "str" THEN [raised |-> TRUE, col |-> 0]
    ELSE IF Lower(cols[k].v) \in potential_columns THEN [raised |-> FALSE, col |-> k]
    ELSE ScanNames(cols, k + 1)

\* df[col].dtype == 'object': the column holds something that is neither a number
\* nor NaN.  (A slice keeps the dtype of the frame it is cut from; a column of an
\* object frame that holds only numbers and NaN in the slice fails the sample
\* test below, so the outcome is the same.)
IsObjectColumn(f, c) == \E r \in DOMAIN f.rows : f.rows[r].cells[c].t \notin {"num", "null"}

\* df[col].dropna().iloc[0] if not df[col].dropna().empty else ""
FirstSample(f, c) ==
    LET present == {r \in DOMAIN f.rows : f.rows[r].cells[c].t # "null"}
    IN IF present = {} THEN PStr("")
       ELSE f.rows[CHOOSE r \in present : \A q \in present : r <= q].cells[c]

TextLike(f, c) ==
    /\ IsObjectColumn(f, c)
    /\ IsStr(FirstSample(f, c))
    /\ StrLen(FirstSample(f, c).v) > 10

RECURSIVE ScanText(_, _)
ScanText(f, k) ==
    IF k > NCols(f) THEN 0
    ELSE IF TextLike(f, k) THEN k
    ELSE ScanText(f, k + 1)

\* an inference without the long-text rule: a vocabulary name, else the first column
infer_by_name_only(f) ==
    LET byName == ScanNames(f.cols, 1) IN
    IF byName.raised THEN byName
    ELSE IF byName.col # 0 THEN byName
    ELSE IF NCols(f) > 0 THEN [raised |-> FALSE, col |-> 1]
    ELSE [raised |-> TRUE, col |-> 0]

infer_feedback_column(f) ==
    LET byName == ScanNames(f.cols, 1) IN
    IF byName.raised THEN byName
    ELSE IF byName.col # 0 THEN byName
    ELSE IF ScanText(f, 1) # 0 THEN [raised |-> FALSE, col |-> ScanText(f, 1)]
    ELSE IF NCols(f) > 0 THEN [raised |-> FALSE, col |-> 1]
    ELSE [raised |-> TRUE, col |-> 0]

\* processed_df[name] = value for every row: an existing column is overwritten in
\* place, a new one is appended
ColumnAt(f, name) ==
    IF \E c \in DOMAIN f.cols : f.cols[c] = name
    THEN CHOOSE c \in DOMAIN f.cols : f.cols[c] = name
    ELSE 0

SetColumn(f, name, value) ==
    IF ColumnAt(f, name) # 0
    THEN MkFrame(f.cols,
             [r \in DOMAIN f.rows |->
                 MkRow(f.rows[r].idx, [f.rows[r].cells EXCEPT ![ColumnAt(f, name)] = value])])
    ELSE MkFrame(Append(f.cols, name),
             [r \in DOMAIN f.rows |-> MkRow(f.rows[r].idx, Append(f.rows[r].cells, value))])

\* processed_df.at[idx, name] = value, for the row at position r
SetCell(f, r, name, value) ==
    MkFrame(f.cols, [f.rows EXCEPT ![r].cells[ColumnAt(f, name)] = value])

CellOf(f, r, name) == f.rows[r].cells[ColumnAt(f, name)]

\* collections.Counter: counter[key] += 1
Inc(counter, key) ==
    IF key \in DOMAIN counter THEN [counter EXCEPT ![key] = @ + 1]
    ELSE counter @@ (key :> 1)

Hashable(x) == x.t \notin {"list", "dict"}

EmptyCategoryData == [c \in Categories |-> <<>>]

\* lines 263-287, one iteration of the row loop on the row at position r
RowStep(acc, f, col, r, c) ==
    LET feedback_text == PyStr(f.rows[r].cells[col]) IN
    IF acc.raised \/ feedback_text = "" \/ IsSpace(feedback_text) THEN acc
    ELSE LET analysis_result == process_single_feedback(feedback_text, c)
             called == [acc EXCEPT !.calls = Append(acc.calls, feedback_text)]
         IN IF ~IsDict(analysis_result) THEN [called EXCEPT !.raised = TRUE]
            ELSE LET sentiment == DictGet(analysis_result, StrKey("sentiment"), PStr("neutral"))
                     category == DictGet(analysis_result, StrKey("category"), PStr("other"))
                     key_points == DictGet(analysis_result, StrKey("key_points"), PList(<<>>))
                 IN IF \/ ~Hashable(sentiment)
                       \/ ~Hashable(category)
                       \/ ~(IsStr(category) /\ category.v \in Categories)
                    THEN [called EXCEPT !.raised = TRUE]
                    ELSE [called EXCEPT
                            !.processed =
                                SetCell(SetCell(SetCell(acc.processed,
                                    r, StrKey("sentiment"), sentiment),
                                    r, StrKey("category"), category),
                                    r, StrKey("key_points"), key_points),
                            !.sentiment_distribution = Inc(acc.sentiment_distribution, sentiment),
                            !.category_distribution = Inc(acc.category_distribution, category),
                            !.category_data[category.v] = Append(@, feedback_text)]

RECURSIVE RowLoop(_, _, _, _, _)
RowLoop(acc, f, col, r, c) ==
    IF r > NRows(f) THEN acc
    ELSE RowLoop(RowStep(acc, f, col, r, c), f, col, r + 1, c)

FirstN(s, n) == SubSeq(s, 1, Min(n, Len(s)))

\* variant: a category whose summary request fails gets no entry
summaries_without_failed(category_data, c) ==
    [cat \in {x \in Categories : category_data[x] # <<>> /\ ~c.sumFails} |->
        [kind |-> "summary", category |-> cat,
         samples |-> FirstN(category_data[cat], SampleCap)]]

\* generate_category_summaries: one entry per category with feedback
generate_category_summaries(category_data, c) ==
    [cat \in {x \in Categories : category_data[x] # <<>>} |->
        IF c.sumFails
        THEN [kind |-> "could not generate", category |-> cat, samples |-> <<>>]
        ELSE [kind |-> "summary", category |-> cat,
              samples |-> FirstN(category_data[cat], SampleCap)]]

\* generate_improvement_suggestions: one entry per category with feedback
generate_improvement_suggestions(category_data, c) ==
    [cat \in {x \in Categories : category_data[x] # <<>>} |->
        IF c.sugFails
        THEN <<[title |-> "Improve based on feedback", category |-> cat, samples |-> <<>>]>>
        ELSE <<[title |-> "suggestion 1", category |-> cat,
                samples |-> FirstN(category_data[cat], SampleCap)],
               [title |-> "suggestion 2", category |-> cat,
                samples |-> FirstN(category_data[cat], SampleCap)],
               [title |-> "suggestion 3", category |-> cat,
                samples |-> FirstN(category_data[cat], SampleCap)]>>]

\* a call that raised in get_gemini_model ("model"), in the column inference
\* ("column") or in the row loop ("row")
Failed(where) == [raised |-> TRUE, error |-> where, feedback_column |-> 0, calls |-> <<>>,
                  category_data |-> EmptyCategoryData, results |-> <<>>]

\* process_feedback.  raised: the call raised (nothing is returned); results: the
\* returned dict; error, feedback_column, calls and category_data are kept for the
\* checks.
process_feedback(f, o, c) ==
    IF ~c.modelOk THEN Failed("model")
    ELSE LET inferred == infer_feedback_column(f) IN
    IF inferred.raised THEN Failed("column")
    ELSE LET start == [raised |-> FALSE,
                       processed |->
                           SetColumn(SetColumn(SetColumn(f,
                               StrKey("sentiment"), PStr("neutral")),
                               StrKey("category"), PStr("other")),
                               StrKey("key_points"), PList(<<>>)),
                       sentiment_distribution |-> <<>>,
                       category_distribution |-> <<>>,
                       category_data |-> EmptyCategoryData,
                       calls |-> <<>>]
             done == RowLoop(start, f, inferred.col, 1, c)
         IN IF done.raised
            THEN [Failed("row") EXCEPT !.feedback_column = inferred.col, !.calls = done.calls]
            ELSE [raised |-> FALSE,
                  error |-> "none",
                  feedback_column |-> inferred.col,
                  calls |-> done.calls,
                  category_data |-> done.category_data,
                  results |->
                    [sentiment_distribution |-> done.sentiment_distribution,
                     category_distribution |-> done.category_distribution,
                     category_summaries |->
                        IF o.include_summaries
                        THEN generate_category_summaries(done.category_data, c) ELSE <<>>,
                     improvement_suggestions |->
                        IF o.include_suggestions
                        THEN generate_improvement_suggestions(done.category_data, c) ELSE <<>>,
                     processed_data |-> done.processed]]

(***************************************************************************)
(* The capabilities and options of the model.                              *)
(***************************************************************************)
GoodStay == Analysis(PStr("positive"), PStr("accommodation"), PList(<<PStr("clean room")>>))
BadOther == Analysis(PStr("negative"), PStr("other"), PList(<<>>))
UnknownCategory == Analysis(PStr("positive"), PStr("pricing"), PList(<<>>))
UnknownSentiment == Analysis(PStr("mixed"), PStr("other"), PList(<<>>))
ListCategory == Analysis(PStr("positive"), PList(<<PStr("other")>>), PList(<<>>))
FourPoints ==
    Analysis(PStr("neutral"), PStr("transportation"),
             PList(<<PStr("p1"), PStr("p2"), PStr("p3"), PStr("p4")>>))
TextPoints == Analysis(PStr("neutral"), PStr("other"), PStr("late"))
NoFields == PDict(<<>>)
NotADict == PList(<<PStr("positive")>>)

Payloads == {GoodStay, BadOther, UnknownCategory, UnknownSentiment, ListCategory,
             FourPoints, TextPoints, NoFields, NotADict}

Answers == {Answer("raise", PNull), Answer("nojson", PNull)}
           \cup {Answer("json", p) : p \in Payloads}

MkCap(ok, table, rest, sumFails, sugFails) ==
    [modelOk |-> ok, table |-> table, rest |-> rest,
     sumFails |-> sumFails, sugFails |-> sugFails]

NominalTable == (ShortText :> Answer("json", GoodStay)) @@ (LongText :> Answer("json", BadOther))
NominalCap == MkCap(TRUE, NominalTable, Answer("json", GoodStay), FALSE, FALSE)

\* classify fails on every call: every request raises, or no answer parses
RaisingCap == MkCap(TRUE, <<>>, Answer("raise", PNull), FALSE, FALSE)
FailingCaps ==
    {RaisingCap, MkCap(TRUE, <<>>, Answer("nojson", PNull), FALSE, FALSE)}
    \cup {MkCap(TRUE, (ShortText :> Answer("raise", PNull)), Answer("nojson", PNull),
                TRUE, TRUE)}

TableCaps ==
    {MkCap(TRUE, t, Answer("json", GoodStay), FALSE, FALSE) :
        t \in [{ShortText, LongText} -> Answers]}

FlagCaps ==
    {MkCap(ok, NominalTable, Answer("json", GoodStay), sumFails, sugFails) :
        ok \in BOOLEAN, sumFails \in BOOLEAN, sugFails \in BOOLEAN}

MkOpts(summaries, suggestions) ==
    [include_summaries |-> summaries, include_suggestions |-> suggestions]
AllOpts == {MkOpts(a, b) : a \in BOOLEAN, b \in BOOLEAN}
NominalOpts == MkOpts(TRUE, TRUE)

\* the single-column feedback datasets
FeedbackFrames ==
    {FeedbackFrame(items) :
        items \in SeqsUpTo({PStr(t) : t \in {"", " ", ShortText, LongText}}, MaxItems) \ {<<>>}}

\* datasets that already hold a column named like one of the annotation columns
AnnotatedObjects ==
    {Obj2(StrKey("feedback"), PStr(t), StrKey(k), PStr("happy")) :
        t \in {ShortText, LongText}, k \in {"sentiment", "category", "key_points"}}

AnnotatedFrames ==
    {DataFrameFromList(items).frame :
        items \in SeqsUpTo(AnnotatedObjects, MaxItems) \ {<<>>}}

\* the calls of the model: every JSON dataset with the nominal and with the failing
\* capabilities (the annotated datasets too), every feedback dataset with every
\* capability and option
ProcCaps(kind) ==
    IF kind \in {"json", "annotated"} THEN {NominalCap} \cup FailingCaps
    ELSE IF kind = "table" THEN TableCaps \cup FailingCaps
    ELSE FlagCaps

ProcOpts(kind) == IF kind = "flags" THEN AllOpts ELSE {NominalOpts}

(***************************************************************************)
(* SpecProc: one call of process_feedback.                                 *)
(***************************************************************************)
NoRet == Failed("not called")

InitProc ==
    /\ pc = "ready"
    /\ upload = NoUpload
    /\ parsed = NotParsed
    /\ \E kind \in {"json", "table", "flags", "annotated"} :
        /\ \/ kind = "json" /\ \E d \in JsonDocs : df = parse_json(d).frame
           \/ kind \in {"table", "flags"} /\ df \in FeedbackFrames
           \/ kind = "annotated" /\ df \in AnnotatedFrames
        /\ cap \in ProcCaps(kind)
        /\ opts \in ProcOpts(kind)
    /\ ret = NoRet
    /\ i = 0
    /\ results = <<>>
    /\ processed_df = EmptyFrame
    /\ error_messages = <<>>
    /\ progress = <<0, 0>>
    /\ end_idx = 0

ProcessFeedbackCall ==
    /\ pc = "ready"
    /\ ret' = process_feedback(df, opts, cap)
    /\ pc' = "done"
    /\ UNCHANGED <<upload, parsed, df, cap, opts, appVars>>

NextProc == ProcessFeedbackCall

SpecProc == InitProc /\ [][NextProc]_vars

(***************************************************************************)
(* Claims about one process_feedback call (SpecProc).                      *)
(***************************************************************************)
\* the text process_feedback reads from the row at position r
FeedbackTextOf(r) == PyStr(df.rows[r].cells[ret.feedback_column])

BlankCell(x) == IsStr(x) /\ x.v \in {"", " "}

\* a payload with every field present, of the right type and in vocabulary
WellFormed(p) ==
    /\ IsDict(p)
    /\ \A key \in {"sentiment", "category", "key_points"} : DictHas(p, StrKey(key))
    /\ DictGet(p, StrKey("sentiment"), PNull) \in {PStr(x) : x \in Sentiments}
    /\ DictGet(p, StrKey("category"), PNull) \in {PStr(x) : x \in Categories}
    /\ IsList(DictGet(p, StrKey("key_points"), PNull))

FailedAnswer(a) == a.kind # "json" \/ ~WellFormed(a.payload)

AnnotatedAs(r, sentiment, category) ==
    /\ CellOf(ret.results.processed_data, r, StrKey("sentiment")) = PStr(sentiment)
    /\ CellOf(ret.results.processed_data, r, StrKey("category")) = PStr(category)

\* C4: whatever the capability answers to a row's classify request, process_feedback
\* does not raise; the row of a failed request gets the default result and every
\* row is returned.
C4_ClassifyFailureAbsorbed ==
    (pc = "done" /\ Len(ret.calls) >= 1) =>
        /\ ~ret.raised
        /\ NRows(ret.results.processed_data) = NRows(df)
        /\ \A r \in DOMAIN df.rows :
              (~BlankCell(df.rows[r].cells[ret.feedback_column])
               /\ FailedAnswer(Classify(cap, FeedbackTextOf(r))))
                  => AnnotatedAs(r, "neutral", "other")

\* classify fails on every call
AlwaysFails(c) ==
    /\ c.rest.kind # "json"
    /\ \A t \in DOMAIN c.table : c.table[t].kind # "json"

ResultKeys == {"sentiment_distribution", "category_distribution", "category_summaries",
               "improvement_suggestions", "processed_data"}

\* C5: if the classify capability fails on every call, the call completes without
\* raising, every row is neutral / other, and the result holds the four maps and
\* the annotated dataset.
C5_AlwaysFailingCapability ==
    (pc = "done" /\ cap.modelOk /\ AlwaysFails(cap)) =>
        /\ ~ret.raised
        /\ DOMAIN ret.results = ResultKeys
        /\ NRows(ret.results.processed_data) = NRows(df)
        /\ \A r \in DOMAIN df.rows : AnnotatedAs(r, "neutral", "other")

KeyPointsOk(x) ==
    /\ IsList(x)
    /\ Len(x.items) <= 3
    /\ \A k \in DOMAIN x.items : IsStr(x.items[k])

\* C6: in every returned result every row has its sentiment and category in the
\* vocabularies and at most 3 key points, all strings, and every key of the two
\* distributions is in its vocabulary.
C6_ResultInVocabulary ==
    (pc = "done" /\ ~ret.raised) =>
        LET data == ret.results.processed_data IN
        /\ \A r \in DOMAIN data.rows :
              /\ CellOf(data, r, StrKey("sentiment")) \in {PStr(x) : x \in Sentiments}
              /\ CellOf(data, r, StrKey("category")) \in {PStr(x) : x \in Categories}
              /\ KeyPointsOk(CellOf(data, r, StrKey("key_points")))
        /\ DOMAIN ret.results.sentiment_distribution \subseteq {PStr(x) : x \in Sentiments}
        /\ DOMAIN ret.results.category_distribution \subseteq {PStr(x) : x \in Categories}

\* C7: a row whose feedback value is empty or whitespace-only causes no classify
\* call and counts in no distribution and no category bucket; in the returned
\* dataset it is present with sentiment neutral, category other and no key points.
C7_BlankRowsSkipped ==
    (pc = "done" /\ ret.feedback_column # 0) =>
        LET col == ret.feedback_column
            blank == {r \in DOMAIN df.rows : BlankCell(df.rows[r].cells[col])}
            spoken == DOMAIN df.rows \ blank
        IN /\ \A k \in DOMAIN ret.calls : ret.calls[k] \notin {"", " "}
           /\ Len(ret.calls) <= Cardinality(spoken)
           /\ ~ret.raised =>
                LET data == ret.results.processed_data IN
                /\ Len(ret.calls) = Cardinality(spoken)
                /\ SumOver(ret.results.sentiment_distribution,
                           DOMAIN ret.results.sentiment_distribution) = Cardinality(spoken)
                /\ SumOver(ret.results.category_distribution,
                           DOMAIN ret.results.category_distribution) = Cardinality(spoken)
                /\ SumOver([c \in Categories |-> Len(ret.category_data[c])], Categories)
                       = Cardinality(spoken)
                /\ \A c \in Categories : \A k \in DOMAIN ret.category_data[c] :
                       ret.category_data[c][k] \notin {"", " "}
                /\ NRows(data) = NRows(df)
                /\ \A r \in blank :
                       /\ data.rows[r].idx = df.rows[r].idx
                       /\ AnnotatedAs(r, "neutral", "other")
                       /\ CellOf(data, r, StrKey("key_points")) = PList(<<>>)

C7_Witness ==
    /\ pc = "done"
    /\ ~ret.raised
    /\ \E r \in DOMAIN df.rows : BlankCell(df.rows[r].cells[ret.feedback_column])
    /\ Len(ret.calls) >= 1

\* the columns a rule of the inference names
NamedColumns(f) ==
    {c \in DOMAIN f.cols : f.cols[c].ty = "str" /\ Lower(f.cols[c].v) \in potential_columns}

LongTextColumns(f) ==
    {c \in DOMAIN f.cols :
        \E r \in DOMAIN f.rows :
            /\ f.rows[r].cells[c].t = "str"
            /\ StrLen(f.rows[r].cells[c].v) > 10
            /\ \A q \in 1..(r - 1) : f.rows[q].cells[c].t = "null"}

Least(S) == CHOOSE x \in S : \A y \in S : x <= y

\* C9: the inferred feedback column is the first column whose name is in the
\* vocabulary (ignoring case), else the first string column whose first non-null
\* value is longer than 10 characters, else the first column; it is a column of
\* the dataset.
C9_InferredColumn ==
    (pc = "done" /\ ret.feedback_column # 0) =>
        /\ ret.feedback_column \in DOMAIN df.cols
        /\ ret.feedback_column =
              IF NamedColumns(df) # {} THEN Least(NamedColumns(df))
              ELSE IF LongTextColumns(df) # {} THEN Least(LongTextColumns(df))
              ELSE 1

C9_Witness ==
    /\ pc = "done"
    /\ NamedColumns(df) = {}
    /\ ret.feedback_column = 2

\* C10: the inference raises only for a dataset without columns.
C10_InferenceRaisesOnlyWithoutColumns ==
    (pc = "done" /\ NCols(df) >= 1) => ret.error # "column"

\* the categories that received at least one sample in the call: those counted in
\* the category distribution
FilledBuckets == {k.v : k \in DOMAIN ret.results.category_distribution}

FallbackSuggestions(cat) ==
    <<[title |-> "Improve based on feedback", category |-> cat, samples |-> <<>>]>>

\* C19: a call that returns holds, in each requested map, exactly one entry per
\* category that received a sample, also when the capability fails: a placeholder
\* string for a failed summary, exactly one fallback suggestion for failed
\* suggestions; a map that was not requested is empty.
C19_OneEntryPerFilledBucket ==
    (pc = "done" /\ ~ret.raised) =>
        /\ DOMAIN ret.results.category_summaries =
                IF opts.include_summaries THEN FilledBuckets ELSE {}
        /\ DOMAIN ret.results.improvement_suggestions =
                IF opts.include_suggestions THEN FilledBuckets ELSE {}
        /\ (opts.include_summaries /\ cap.sumFails) =>
                \A cat \in FilledBuckets :
                    ret.results.category_summaries[cat].kind = "could not generate"
        /\ (opts.include_suggestions /\ cap.sugFails) =>
                \A cat \in FilledBuckets :
                    ret.results.improvement_suggestions[cat] = FallbackSuggestions(cat)

C19_Witness ==
    /\ pc = "done"
    /\ ~ret.raised
    /\ opts.include_summaries /\ opts.include_suggestions
    /\ cap.sumFails /\ cap.sugFails
    /\ Cardinality(FilledBuckets) = 2
    /\ DOMAIN ret.results.category_summaries = FilledBuckets

AnnotationColumns == <<StrKey("sentiment"), StrKey("category"), StrKey("key_points")>>

\* C22: the annotated dataset of a call that returns has every original column
\* with its original values in every row, followed by the three appended
\* columns sentiment, category and key_points, also when the input already has
\* a column with one of these names.
C22_OriginalColumnsKept ==
    (pc = "done" /\ ~ret.raised) =>
        /\ ret.results.processed_data.cols = df.cols \o AnnotationColumns
        /\ NRows(ret.results.processed_data) = NRows(df)
        /\ \A r \in DOMAIN df.rows : \A c \in DOMAIN df.cols :
              ret.results.processed_data.rows[r].cells[c] = df.rows[r].cells[c]

(***************************************************************************)
(* SpecExtract: one process_feedback call on a one-row dataset whose       *)
(* capability answers with a response text of up to MaxPieces pieces.      *)
(***************************************************************************)
MaxPieces == 6

ResponseTexts == UNION {[1..n -> Pieces] : n \in 0..MaxPieces}

ResponseCaps ==
    {MkCap(TRUE, <<>>, Answer("text", t), FALSE, FALSE) : t \in ResponseTexts}

InitExtract ==
    /\ pc = "ready"
    /\ upload = NoUpload
    /\ parsed = NotParsed
    /\ df = FeedbackFrame(<<PStr(ShortText)>>)
    /\ cap \in ResponseCaps
    /\ opts = NominalOpts
    /\ ret = NoRet
    /\ i = 0
    /\ results = <<>>
    /\ processed_df = EmptyFrame
    /\ error_messages = <<>>
    /\ progress = <<0, 0>>
    /\ end_idx = 0

NextExtract == ProcessFeedbackCall

SpecExtract == InitExtract /\ [][NextExtract]_vars

\* the group of the leftmost match of each alternative searched for on its own
JsonFenceAlone(t) ==
    LET ks == {k \in DOMAIN t : JsonFenceAt(t, k).found}
    IN IF ks = {} THEN NoMatch ELSE JsonFenceAt(t, Least(ks))

AnyFenceAlone(t) ==
    LET ks == {k \in DOMAIN t : AnyFenceAt(t, k).found}
    IN IF ks = {} THEN NoMatch ELSE AnyFenceAt(t, Least(ks))

BracesAlone(t) ==
    LET ks == {k \in DOMAIN t : BracesAt(t, k).found}
    IN IF ks = {} THEN NoMatch ELSE BracesAt(t, Least(ks))

\* the text holds a parseable JSON object under one of the three patterns
ParseableUnderSomePattern(t) ==
    \/ JsonFenceAlone(t).found /\ Loads(JsonFenceAlone(t).group)
    \/ AnyFenceAlone(t).found /\ Loads(AnyFenceAlone(t).group)
    \/ BracesAlone(t).found /\ Loads(BracesAlone(t).group)

\* the row was annotated with the object of the response, not with the default
PayloadReturned ==
    /\ ~ret.raised
    /\ ret.results.sentiment_distribution = (PStr("positive") :> 1)
    /\ ret.results.category_distribution = (PStr("accommodation") :> 1)

\* C21: whenever the response text holds a parseable JSON object under the
\* json-fenced, the generic fenced or the bare-braces pattern, that object is
\* what the classification returns; the default result is not substituted.
C21_PayloadUnderAnyPattern ==
    (pc = "done" /\ ParseableUnderSomePattern(cap.rest.payload)) => PayloadReturned

(***************************************************************************)
(* SpecParse: a file is uploaded and parse_file is called on it            *)
(* (app.py line 41).                                                       *)
(***************************************************************************)
InitParse ==
    /\ pc = "uploaded"
    /\ \/ upload \in TextUploads
       \/ upload \in JsonUploads
    /\ parsed = NotParsed
    /\ df = EmptyFrame
    /\ cap = NominalCap
    /\ opts = NominalOpts
    /\ ret = NoRet
    /\ i = 0
    /\ results = <<>>
    /\ processed_df = EmptyFrame
    /\ error_messages = <<>>
    /\ progress = <<0, 0>>
    /\ end_idx = 0

ParseCsvFile ==
    /\ pc = "uploaded"
    /\ upload.ext = "csv"
    /\ \E delimiter \in SniffOutcomes(upload.chars) :
           parsed' = parse_file(upload, delimiter)
    /\ pc' = "parsed"
    /\ UNCHANGED <<upload, df, cap, opts, ret, appVars>>

ParseJsonFile ==
    /\ pc = "uploaded"
    /\ upload.ext = "json"
    /\ parsed' = parse_file(upload, ",")
    /\ pc' = "parsed"
    /\ UNCHANGED <<upload, df, cap, opts, ret, appVars>>

ParseTxtFile ==
    /\ pc = "uploaded"
    /\ upload.ext \notin {"csv", "json"}
    /\ parsed' = parse_file(upload, ",")
    /\ pc' = "parsed"
    /\ UNCHANGED <<upload, df, cap, opts, ret, appVars>>

NextParse == ParseCsvFile \/ ParseJsonFile \/ ParseTxtFile

SpecParse == InitParse /\ [][NextParse]_vars

\* C1: whatever the content and the declared extension, the dataset parse_file
\* returns has at least one row and at least one column.
C1_ParsedNonEmpty ==
    pc = "parsed" => NRows(parsed.frame) >= 1 /\ NCols(parsed.frame) >= 1

\* the document of the upload is an object, as json.loads or literal_eval read it
ParsedObject == pc = "parsed" /\ upload.ext = "json" /\ IsDict(upload.doc.value)

\* positions of the list-valued entries of the uploaded object
ListEntries == {k \in DOMAIN upload.doc.value.pairs : IsList(upload.doc.value.pairs[k].v)}

\* positions in the preference list of the keys that are list-valued in the object
PreferredEntries ==
    {n \in DOMAIN feedback_related_keys :
        \E k \in ListEntries :
            upload.doc.value.pairs[k].k = StrKey(feedback_related_keys[n])}

ListUnder(key) ==
    upload.doc.value.pairs[CHOOSE k \in ListEntries : upload.doc.value.pairs[k].k = key].v

\* the returned dataset is the expansion of list: one row per element, or a
\* one-row placeholder when the list is empty or pandas refuses it
ExpandedFrom(list) ==
    LET made == DataFrameFromList(list.items) IN
    IF made.raised \/ IsEmptyFrame(made.frame)
    THEN NRows(parsed.frame) = 1 /\ parsed.frame.cols = <<StrKey("feedback")>>
    ELSE parsed.frame = made.frame /\ NRows(parsed.frame) = Len(list.items)

\* C11: for an object with list-valued keys, parse_json expands the list under the
\* first key of the preference list that is list-valued, whatever the lengths;
\* with no such key it expands the longest list (the first of the longest, when
\* it is non-empty and its key is non-empty).
C11_PreferredListWins ==
    (ParsedObject /\ ListEntries # {}) =>
        IF PreferredEntries # {}
        THEN ExpandedFrom(ListUnder(StrKey(feedback_related_keys[Least(PreferredEntries)])))
        ELSE LET longest == Least({k \in ListEntries : \A m \in ListEntries :
                                Len(upload.doc.value.pairs[m].v.items)
                                    <= Len(upload.doc.value.pairs[k].v.items)})
                 entry == upload.doc.value.pairs[longest]
             IN (KeyTruthy(entry.k) /\ entry.v.items # <<>>) => ExpandedFrom(entry.v)

\* a preferred list shorter than another list of the object was expanded
C11_Witness ==
    /\ ParsedObject
    /\ PreferredEntries # {}
    /\ \E k \in ListEntries :
          Len(upload.doc.value.pairs[k].v.items)
              > Len(ListUnder(StrKey(feedback_related_keys[Least(PreferredEntries)])).items)
    /\ NRows(parsed.frame)
          = Len(ListUnder(StrKey(feedback_related_keys[Least(PreferredEntries)])).items)
    /\ parsed.label = "json"

\* the upload went through parse_txt
ParsedText == pc = "parsed" /\ upload.ext \notin {"csv", "json"}

\* positions of the first non-blank character of each non-blank line
LineStarts(chars) ==
    {k \in DOMAIN chars :
        /\ chars[k] \notin {" ", NL}
        /\ \A j \in 1..(k - 1) :
              (\A m \in j..(k - 1) : chars[m] # NL) => chars[j] = " "}

NonBlankCount(chars) == Cardinality(LineStarts(chars))

\* a comma in one of the first ten non-blank lines
CommaEarly(chars) ==
    \E k \in DOMAIN chars :
        /\ chars[k] = ","
        /\ Cardinality({q \in LineStarts(chars) : q <= k}) <= FirstLines

CommaLines(chars) ==
    {q \in LineStarts(chars) :
        /\ Cardinality({p \in LineStarts(chars) : p <= q}) <= FirstLines
        /\ \E k \in q..Len(chars) :
              chars[k] = "," /\ \A m \in q..k : chars[m] # NL}

\* more than half of the first ten non-blank lines contain a comma
CommaMajority(chars) ==
    2 * Cardinality(CommaLines(chars)) > Min(NonBlankCount(chars), FirstLines)

PlainTextResult ==
    /\ parsed.label = "text"
    /\ parsed.frame.cols = <<StrKey("feedback")>>
    /\ NRows(parsed.frame) = NonBlankCount(upload.chars)

\* C20: a text input with non-blank lines is re-parsed as CSV exactly when it has
\* at least 2 non-blank lines and a majority of the first 10 contain a comma; in
\* every other case, and when the CSV read fails, the result is one feedback row
\* per non-blank line with label "text".
C20_ReparseOnCommaMajority ==
    (ParsedText /\ NonBlankCount(upload.chars) >= 1) =>
        IF /\ NonBlankCount(upload.chars) >= 2
           /\ CommaMajority(upload.chars)
           /\ ~ReadCsv(upload.chars, ",", FALSE).raised
        THEN parsed.label = "csv-like text"
        ELSE PlainTextResult

\* every read attempt of parse_csv raises, whatever delimiter was sniffed
CsvReadsRaise ==
    /\ upload.ext = "csv"
    /\ ReadCsv(upload.chars, ",", FALSE).raised
    /\ \A d \in SniffOutcomes(upload.chars) : ReadCsv(upload.chars, d, TRUE).raised

\* the document is a list that opens with an object or a list and holds an
\* element of another shape: pandas.DataFrame raises on it
RaggedList ==
    /\ upload.ext = "json"
    /\ IsList(upload.doc.value)
    /\ upload.doc.value.items # <<>>
    /\ upload.doc.value.items[1].t \in {"dict", "list"}
    /\ \E k \in DOMAIN upload.doc.value.items :
          upload.doc.value.items[k].t # upload.doc.value.items[1].t

ErrorLabels == {"csv with parsing error", "json with parsing error",
                "text with parsing error", "parsing error"}

ErrorPlaceholders ==
    {CsvError, JsonError, "Error in file parsing - this is a placeholder entry",
     "Error parsing file - please check format and try again"}

MaxCsvRows == 3

CsvRowTexts ==
    {<<"x">>, <<"x", " ", "x">>, <<"x", " ", "x", " ", "x">>, <<QUOTE, "x", ",", "x", QUOTE>>}

RECURSIVE CsvLines(_)
CsvLines(rows) == IF rows = <<>> THEN <<>> ELSE <<NL>> \o Head(rows) \o CsvLines(Tail(rows))

FeedbackCsvFiles ==
    {<<"feedback">> \o CsvLines(rows) \o end :
        rows \in SeqsUpTo(CsvRowTexts, MaxCsvRows), end \in {<<>>, <<NL>>}}

InitCsv ==
    /\ pc = "uploaded"
    /\ \E cs \in FeedbackCsvFiles : upload = [ext |-> "csv", chars |-> cs, doc |-> NoDoc]
    /\ parsed = NotParsed
    /\ df = EmptyFrame
    /\ cap = NominalCap
    /\ opts = NominalOpts
    /\ ret = NoRet
    /\ i = 0
    /\ results = <<>>
    /\ processed_df = EmptyFrame
    /\ error_messages = <<>>
    /\ progress = <<0, 0>>
    /\ end_idx = 0

NextCsv == ParseCsvFile

SpecCsv == InitCsv /\ [][NextCsv]_vars

\* C13: the dataset parsed from a well-formed comma-delimited CSV file with header
\* feedback and N data rows has exactly N rows and a column named feedback.
C13_CsvRoundTrip ==
    pc = "parsed" =>
        /\ NRows(parsed.frame) = NonBlankCount(upload.chars) - 1
        /\ \E c \in DOMAIN parsed.frame.cols : parsed.frame.cols[c] = StrKey("feedback")

(***************************************************************************)
(* app.py: the "Analyze Feedback" run.                                     *)
(***************************************************************************)
ChunkLimit == 10

\* lines 43-48: an empty parse result is replaced by a sample entry
AppSample == "Sample feedback entry for demonstration - please upload valid data"
Uploaded(f) == IF IsEmptyFrame(f) THEN FeedbackFrame(<<PStr(AppSample)>>) ELSE f

\* df.iloc[start:end]
Slice(f, start, end) == MkFrame(f.cols, SubSeq(f.rows, start + 1, Min(end, NRows(f))))

total_chunks(f) == Min(ChunkLimit, NRows(f))

\* variant: the chunk size rounded up
chunk_size_ceil(f) == Max(1, (NRows(f) + total_chunks(f) - 1) \div total_chunks(f))

chunk_size(f) == Max(1, NRows(f) \div total_chunks(f))
start_of(f, k) == k * chunk_size(f)
end_of(f, k) == Min(start_of(f, k) + chunk_size(f), NRows(f))

\* results[key][k] = results[key].get(k, 0) + v for every item of the chunk's counter
MergeCounters(a, b) ==
    [k \in DOMAIN a \cup DOMAIN b |->
        (IF k \in DOMAIN a THEN a[k] ELSE 0) + (IF k \in DOMAIN b THEN b[k] ELSE 0)]

\* dict.update
DictUpdate(a, b) ==
    [k \in DOMAIN a \cup DOMAIN b |-> IF k \in DOMAIN b THEN b[k] ELSE a[k]]

\* pd.concat([processed_df, chunk]) of frames with the same columns (the first
\* operand may be the empty pd.DataFrame())
Concat(a, b) == IF NCols(a) = 0 THEN b ELSE MkFrame(a.cols, a.rows \o b.rows)

DictSet(d, key, value) ==
    [k \in DOMAIN d \cup {key} |-> IF k = key THEN value ELSE d[k]]

\* lines 121-139: accumulate the results of chunk number k (0-based)
Accumulate(res, chunk_results, k) ==
    IF k = 0 THEN chunk_results
    ELSE LET summed ==
                [key \in DOMAIN res |->
                    IF key \in {"sentiment_distribution", "category_distribution"}
                       /\ key \in DOMAIN chunk_results
                    THEN MergeCounters(res[key], chunk_results[key])
                    ELSE IF key \in {"category_summaries", "improvement_suggestions"}
                            /\ key \in DOMAIN chunk_results
                    THEN DictUpdate(res[key], chunk_results[key])
                    ELSE res[key]]
         IN summed

AccumulateData(data, chunk_results, k) ==
    IF k = 0 THEN chunk_results.processed_data
    ELSE IF "processed_data" \in DOMAIN chunk_results
    THEN Concat(data, chunk_results.processed_data)
    ELSE data

\* report_generator.py reads the four maps of the results it is given
ReportKeys == {"sentiment_distribution", "category_distribution", "category_summaries",
               "improvement_suggestions"}

\* the datasets of a run: JSON lists whose items repeat with period 1 or 2
RunItems ==
    {Obj1(StrKey("feedback"), PStr(t)) : t \in {"", ShortText, LongText, OtherLongText}}
    \cup {Obj2(StrKey("notes"), PStr(t1), StrKey("remarks"), PStr(t2)) :
             t1 \in {ShortText, LongText}, t2 \in {ShortText, LongText}}
    \cup {PNum("7")}

Periods == {1, 2}

RunDocs(maxRows) ==
    {[syntax |-> "json", lines |-> <<>>,
      value |-> PList([k \in 1..n |-> base[((k - 1) % Len(base)) + 1]])] :
        base \in UNION {[1..q -> RunItems] : q \in Periods}, n \in 1..maxRows}

\* a text file that parse_txt reads as a table without rows
HeaderOnlyText == <<",", QUOTE, NL, QUOTE>>

RunFrames(maxRows) ==
    {Uploaded(parse_json(d).frame) : d \in RunDocs(maxRows)}
    \cup {Uploaded(parse_txt(HeaderOnlyText).frame)}

\* a deterministic capability: the answer depends on the text alone
RunTable ==
    (ShortText :> Answer("json", GoodStay)) @@ (LongText :> Answer("json", BadOther))
    @@ (OtherLongText :> Answer("json", UnknownCategory))
RunCaps == {MkCap(ok, RunTable, Answer("json", GoodStay), FALSE, FALSE) : ok \in BOOLEAN}

InitRun ==
    /\ pc = "loop"
    /\ upload = NoUpload
    /\ parsed = NotParsed
    /\ df \in RunFrames(MaxRunRows)
    /\ cap \in RunCaps
    /\ opts = NominalOpts
    /\ ret = NoRet
    /\ i = 0
    /\ results = <<>>
    /\ processed_df = EmptyFrame
    /\ error_messages = <<>>
    /\ progress = <<0, total_chunks(df)>>
    /\ end_idx = 0

\* lines 100-108: an iteration cuts its chunk and reports (i + 1) / total_chunks
\* to the progress bar before the chunk is processed
UpdateProgress ==
    /\ pc = "loop"
    /\ i < total_chunks(df)
    /\ end_idx' = end_of(df, i)
    /\ progress' = <<i + 1, total_chunks(df)>>
    /\ pc' = "chunk"
    /\ UNCHANGED <<upload, parsed, df, cap, opts, ret, i, results, processed_df,
                   error_messages>>

\* lines 110-139: the rest of an iteration whose process_feedback call returns
ChunkProcessed ==
    /\ pc = "chunk"
    /\ LET chunk == Slice(df, start_of(df, i), end_of(df, i))
           chunk_results == process_feedback(chunk, opts, cap)
       IN /\ ~chunk_results.raised
          /\ results' = Accumulate(results, chunk_results.results, i)
          /\ processed_df' = AccumulateData(processed_df, chunk_results.results, i)
          /\ ret' = chunk_results
    /\ i' = i + 1
    /\ pc' = "loop"
    /\ UNCHANGED <<upload, parsed, df, cap, opts, error_messages, progress, end_idx>>

\* lines 110-145: the rest of an iteration whose process_feedback call raises
ChunkFailed ==
    /\ pc = "chunk"
    /\ LET chunk == Slice(df, start_of(df, i), end_of(df, i))
           chunk_results == process_feedback(chunk, opts, cap)
       IN /\ chunk_results.raised
          /\ ret' = chunk_results
    /\ error_messages' = Append(error_messages, i + 1)
    /\ i' = i + 1
    /\ pc' = "loop"
    /\ UNCHANGED <<upload, parsed, df, cap, opts, results, processed_df, progress, end_idx>>

\* lines 147-170: after the loop
FinishLoop ==
    /\ pc = "loop"
    /\ i = total_chunks(df)
    /\ results' = DictSet(results, "processed_data", processed_df)
    /\ progress' = <<total_chunks(df), total_chunks(df)>>
    /\ pc' = "finished"
    /\ UNCHANGED <<upload, parsed, df, cap, opts, ret, i, processed_df, error_messages,
                   end_idx>>

\* lines 194-196 and 212-214: generate_pdf_report(results); a missing map is a
\* KeyError caught by the handler of the run
GenerateReport ==
    /\ pc = "finished"
    /\ pc' = IF ReportKeys \subseteq DOMAIN results THEN "report ready" ELSE "analysis error"
    /\ UNCHANGED <<upload, parsed, df, cap, opts, ret, appVars>>

NextRun == UpdateProgress \/ ChunkProcessed \/ ChunkFailed \/ FinishLoop \/ GenerateReport

SpecRun == InitRun /\ [][NextRun]_vars

\* the index labels of a frame's rows, in order
IndexOf(f) == [r \in DOMAIN f.rows |-> f.rows[r].idx]

\* the distributions of the accumulated results equal those of one
\* process_feedback call over the whole dataset
SameDistributionsAsWhole ==
    LET whole == process_feedback(df, opts, cap) IN
    /\ ~whole.raised
    /\ results.sentiment_distribution = whole.results.sentiment_distribution
    /\ results.category_distribution = whole.results.category_distribution

\* C2: with the app's chunking and no chunk failing, the final annotated dataset
\* holds every input row exactly once, in the original order, and the final
\* distributions equal those of a single call over the whole dataset.
C2_ChunksCoverDataset ==
    (pc = "finished" /\ error_messages = <<>>) =>
        /\ IndexOf(results.processed_data) = IndexOf(df)
        /\ SameDistributionsAsWhole

\* C8: the result handed to generate_pdf_report holds the four maps and the
\* annotated dataset, whichever chunks raised.
C8_ReportGetsAllMaps ==
    pc \in {"finished", "report ready", "analysis error"} =>
        (ReportKeys \cup {"processed_data"}) \subseteq DOMAIN results

\* C15: every chunk of a run is analysed on the feedback column that inference
\* selects on the whole dataset (ret is the outcome of the latest chunk's call).
C15_SameColumnEveryChunk ==
    (i >= 1 /\ ret.error \in {"none", "row"}) =>
        ret.feedback_column = infer_feedback_column(df).col

\* what the run should hold after chunks 1..k if every chunk that returned were
\* kept: counters summed, maps updated in call order, annotated rows appended
NothingKept ==
    [sentiment_distribution |-> <<>>, category_distribution |-> <<>>,
     category_summaries |-> <<>>, improvement_suggestions |-> <<>>, rows |-> <<>>]

KeepChunk(kept, r) ==
    IF r.raised THEN kept
    ELSE [sentiment_distribution |->
              MergeCounters(kept.sentiment_distribution, r.results.sentiment_distribution),
          category_distribution |->
              MergeCounters(kept.category_distribution, r.results.category_distribution),
          category_summaries |->
              DictUpdate(kept.category_summaries, r.results.category_summaries),
          improvement_suggestions |->
              DictUpdate(kept.improvement_suggestions, r.results.improvement_suggestions),
          rows |-> kept.rows \o IndexOf(r.results.processed_data)]

RECURSIVE KeptUpTo(_)
KeptUpTo(k) ==
    IF k = 0 THEN NothingKept
    ELSE KeepChunk(KeptUpTo(k - 1),
                   process_feedback(Slice(df, start_of(df, k - 1), end_of(df, k - 1)),
                                    opts, cap))

HoldsKept(res, kept) ==
    /\ ReportKeys \cup {"processed_data"} \subseteq DOMAIN res
    /\ res.sentiment_distribution = kept.sentiment_distribution
    /\ res.category_distribution = kept.category_distribution
    /\ res.category_summaries = kept.category_summaries
    /\ res.improvement_suggestions = kept.improvement_suggestions
    /\ IndexOf(res.processed_data) = kept.rows

\* C16: a chunk that raises does not stop the run, and the final result holds the
\* distributions, summaries, suggestions and annotated rows of every chunk that
\* returned, whichever chunk raised.
C16_SuccessfulChunksKept ==
    (pc = "finished" /\ error_messages # <<>>) =>
        /\ i = total_chunks(df)
        /\ HoldsKept(results, KeptUpTo(total_chunks(df)))

\* C17: whenever the progress bar shows k / total_chunks, chunks 1..k have been
\* processed (i counts the chunks whose processing has ended), so a full bar
\* means that every chunk is done.
C17_ProgressAfterChunk ==
    progress[1] <= i

(***************************************************************************)
(* SpecFold: the accumulation of app.py lines 110-145 over an arbitrary    *)
(* split of the dataset into contiguous chunks (each chunk ends where the  *)
(* caller chooses).                                                        *)
(***************************************************************************)
InitFold ==
    /\ pc = "fold"
    /\ upload = NoUpload
    /\ parsed = NotParsed
    /\ df \in RunFrames(MaxFoldRows)
    /\ cap \in RunCaps
    /\ opts = NominalOpts
    /\ ret = NoRet
    /\ i = 0
    /\ results = <<>>
    /\ processed_df = EmptyFrame
    /\ error_messages = <<>>
    /\ progress = <<0, 0>>
    /\ end_idx = 0

FoldChunkProcessed ==
    /\ pc = "fold"
    /\ \E e \in (end_idx + 1)..NRows(df) :
        LET chunk_results == process_feedback(Slice(df, end_idx, e), opts, cap)
        IN /\ ~chunk_results.raised
           /\ results' = Accumulate(results, chunk_results.results, i)
           /\ processed_df' = AccumulateData(processed_df, chunk_results.results, i)
           /\ ret' = chunk_results
           /\ end_idx' = e
    /\ i' = i + 1
    /\ UNCHANGED <<pc, upload, parsed, df, cap, opts, error_messages, progress>>

FoldChunkFailed ==
    /\ pc = "fold"
    /\ \E e \in (end_idx + 1)..NRows(df) :
        LET chunk_results == process_feedback(Slice(df, end_idx, e), opts, cap)
        IN /\ chunk_results.raised
           /\ ret' = chunk_results
           /\ end_idx' = e
    /\ error_messages' = Append(error_messages, i + 1)
    /\ i' = i + 1
    /\ UNCHANGED <<pc, upload, parsed, df, cap, opts, results, processed_df, progress>>

FoldDone ==
    /\ pc = "fold"
    /\ end_idx = NRows(df)
    /\ pc' = "folded"
    /\ UNCHANGED <<upload, parsed, df, cap, opts, ret, appVars>>

NextFold == FoldChunkProcessed \/ FoldChunkFailed \/ FoldDone

SpecFold == InitFold /\ [][NextFold]_vars

\* C3: for a deterministic capability, folding the results of any contiguous
\* chunks that cover the dataset gives the sentiment and category distributions
\* of processing the rows as a single chunk.
C3_RechunkingKeepsDistributions ==
    (pc = "folded" /\ error_messages = <<>>) => SameDistributionsAsWhole

\* the map a result holds under a key (empty when the key is missing)
MapOf(res, key) == IF key \in DOMAIN res THEN res[key] ELSE <<>>

\* new is old overwritten key by key with the chunk's map
OverwrittenBy(old, chunk, new) ==
    /\ DOMAIN new = DOMAIN old \cup DOMAIN chunk
    /\ \A cat \in DOMAIN chunk : new[cat] = chunk[cat]
    /\ \A cat \in DOMAIN old \ DOMAIN chunk : new[cat] = old[cat]

\* C18: each chunk that returns overwrites, key by key, the category_summaries and
\* improvement_suggestions accumulated so far: its entries replace the older
\* ones and the entries of categories it has no sample of are kept, so after the
\* run a category's entry is that of the last chunk which had a sample of it.
C18_MapsMergeByOverwrite ==
    [][(i' = i + 1 /\ ~ret'.raised) =>
          \A key \in {"category_summaries", "improvement_suggestions"} :
              OverwrittenBy(MapOf(results, key), ret'.results[key], MapOf(results', key))]_vars

\* the sum of the counts of a counter
Total(counter) == SumOver(counter, DOMAIN counter)

\* the classify calls made in the first k chunks of the run by the calls of
\* process_feedback that returned
CallsOf(call) == IF call.raised THEN 0 ELSE Len(call.calls)

RECURSIVE CallsKept(_)
CallsKept(k) ==
    IF k = 0 THEN 0
    ELSE CallsKept(k - 1) +
         CallsOf(process_feedback(Slice(df, start_of(df, k - 1), end_of(df, k - 1)),
                                  opts, cap))

\* in the call that just returned, every category is counted as often as its
\* bucket has samples
BucketsCounted(call) ==
    \A c \in Categories :
        Len(call.category_data[c]) =
            (IF PStr(c) \in DOMAIN call.results.category_distribution
             THEN call.results.category_distribution[PStr(c)] ELSE 0)

\* C23: after any number of chunks of a run, the counts of sentiment_distribution
\* and of category_distribution both add up to the number of classify calls made
\* in the chunks that returned; and in each call that returns, every category's
\* count is the size of its bucket.
C23_CountsMatchCalls ==
    (pc \in {"loop", "finished"}) =>
        /\ Total(MapOf(results, "sentiment_distribution")) = CallsKept(i)
        /\ Total(MapOf(results, "category_distribution")) = CallsKept(i)
        /\ (i >= 1 /\ ~ret.raised) => BucketsCounted(ret)

\* C24: the dataset of a run has at least one row, so total_chunks is between 1
\* and 10 and chunk_size at least 1; every chunk the loop cuts starts below
\* len(df) and is not empty, and a chunk starts no earlier than the previous one
\* ended.
C24_ChunksWellFormed ==
    /\ NRows(df) >= 1
    /\ total_chunks(df) \in 1..ChunkLimit
    /\ chunk_size(df) >= 1
    /\ pc = "chunk" =>
          /\ start_of(df, i) < NRows(df)
          /\ start_of(df, i) < end_idx
          /\ end_idx <= NRows(df)
          /\ NRows(Slice(df, start_of(df, i), end_idx)) >= 1
    /\ (pc = "loop" /\ i < total_chunks(df)) => end_idx <= start_of(df, i)

\* the last chunk of a dataset with more rows than chunks has been cut
C24_Witness ==
    /\ pc = "chunk"
    /\ NRows(df) > ChunkLimit
    /\ i = total_chunks(df) - 1
    /\ end_idx = start_of(df, i) + 1

====
